---- MODULE Spec2Model ----
(***************************************************************************)
(* Model of the fleetingd instance lifecycle manager: Inventory            *)
(* (BootInstance, PrebuildInstance, the reaper goroutines, DestroyInstance,*)
(* DestroyAllInstances, ApplyNftables) and the InstanceGroup facade        *)
(* (Increase, Decrease, Shutdown).                                         *)
(*                                                                         *)
(* Every action is one step of one goroutine between two points at which   *)
(* it can be interleaved with the others: a lock acquisition, a blocking   *)
(* call (file I/O, process spawn, nft) or a channel operation.             *)
(***************************************************************************)
EXTENDS Integers, Sequences, FiniteSets, Bags, TLC

(***************************************************************************)
(* Bounds of the model.                                                    *)
(***************************************************************************)
\* Number of BootInstance calls the Increase calls of a run ask for, in all:
\* MaxBoots concurrent Increase(1), one Increase(MaxBoots), or any split.
MaxBoots == 2
\* The same in the runs without Shutdown and Decrease, which make room for
\* one call more than the address space has slots.
MaxBootsAlone == 3
\* The same in the runs whose Increase calls take turns, which make room for
\* a call that finds the address space full and one that follows it.
MaxBootsInTurn == 4
\* Update calls a run makes, one after the other.
MaxUpdates == 2
\* The walk of BootInstance stops at 255 - stepSize; the model walks a
\* shorter address space of the same shape (255 = 4*63 + 3, 11 = 4*2 + 3).
LastOctetLimit == 11
\* DestroyInstance gives up when waitCounter exceeds 100; the model gives up
\* after fewer polls.
DestroyPolls == 1

(***************************************************************************)
(* Program constants.                                                      *)
(***************************************************************************)
stepSize == 4
\* A capacity one below the number of slots.
MaxIPAMSlotsShort == (LastOctetLimit \div stepSize) - 1

MaxIPAMSlots == LastOctetLimit \div stepSize

\* The vm_subnet setting of the README, which is also VMPrefix.
VMSubnet == "172.16.120."

\* The values of the vm_subnet setting that are modelled.
VMSubnets == {VMSubnet, "10.0.0."}

\* InstanceGroup.VMSubnet, read from the settings and never assigned.
VARIABLE vmSubnet

\* InstanceGroup.MakeAddress: the subnet prefix followed by the decimal index.
\* The string is kept as the pair of its two parts.
MakeAddress(index) == <<vmSubnet, index>>

\* The key of ipamSlots: MakeAddress(subnetBase) + "/30".
CIDR(subnetBase) == <<MakeAddress(subnetBase), "/30">>

\* A name made of the base itself instead of the instance index.
InstanceNameOfBase(subnetBase) == <<"fleetingd", subnetBase>>

\* instanceName: "fleetingd" + strconv.Itoa(subnetBase / stepSize).
InstanceName(subnetBase) == <<"fleetingd", subnetBase \div stepSize>>

\* Every base the walk can allocate, and the names of their instances.
Bases == {b \in 0..LastOctetLimit : b % stepSize = 0 /\ b < LastOctetLimit - stepSize}
Names == {InstanceName(b) : b \in Bases}

Exhausted == -1

\* A walk that takes the base it stands on without looking it up in slots.
WalkFromUnchecked(subnetBase, slots, limit) ==
    IF subnetBase >= limit - stepSize THEN Exhausted ELSE subnetBase

\* A walk that stops at limit instead of limit - stepSize.
RECURSIVE WalkFromPastLimit(_, _, _)
WalkFromPastLimit(subnetBase, slots, limit) ==
    IF subnetBase >= limit THEN Exhausted
    ELSE IF CIDR(subnetBase) \notin slots THEN subnetBase
    ELSE WalkFromPastLimit(subnetBase + 4, slots, limit)

\* A walk that takes the highest free base below limit - stepSize.
WalkFromHighest(subnetBase, slots, limit) ==
    LET free == {b \in subnetBase..limit :
                    b % stepSize = 0 /\ b < limit - stepSize /\ CIDR(b) \notin slots}
    IN  IF free = {} THEN Exhausted
        ELSE CHOOSE b \in free : \A x \in free : x <= b

\* The walk of the allocation loop: the first base, from subnetBase upwards in
\* steps of 4, whose CIDR key is not in slots; Exhausted when the walk
\* reaches limit - stepSize.
RECURSIVE WalkFrom(_, _, _)
WalkFrom(subnetBase, slots, limit) ==
    IF subnetBase >= limit - stepSize THEN Exhausted
    ELSE IF CIDR(subnetBase) \notin slots THEN subnetBase
    ELSE WalkFrom(subnetBase + 4, slots, limit)

Walk(slots) == WalkFrom(0, slots, LastOctetLimit)

\* A guard that does not look at the flag.
ShutdownCheckSkipped(flag) == FALSE

\* The guard of BootInstance and PrebuildInstance after taking the lock.
ShutdownCheck(flag) == flag

\* The InstanceInfo record stored in the map. The cancel function is
\* identified by the base of the child whose context it cancels; rand.Read
\* is taken to yield the same four bytes for every MAC.
InstanceInfo(mode, subnetBase) ==
    [Name |-> InstanceName(subnetBase),
     InstanceContextCancelFunc |-> subnetBase,
     HostTapIP |-> MakeAddress(subnetBase + 1),
     InstanceTapIP |-> MakeAddress(subnetBase + 2),
     InstanceTapMacAddress |-> "de:51:00:00:00:00",
     SSHPrivateKey |-> IF mode = "worker" THEN "privKey" ELSE "nil"]

\* What BootInstance and PrebuildInstance hand to the child: the --net
\* argument of cloud-hypervisor (tap, ip, mask) and the user-data image of
\* its second --disk, held as the template input createUserdata renders
\* (instanceName, ip = instanceTapIP, gateway = hostTapIP, netmask "/30").
HypervisorCommand(subnetBase) ==
    LET instanceName == InstanceName(subnetBase)
        hostTapIP == MakeAddress(subnetBase + 1)
        instanceTapIP == MakeAddress(subnetBase + 2)
    IN  [tap |-> instanceName, ip |-> hostTapIP, mask |-> "255.255.255.252",
         userdata |-> [InstanceName |-> instanceName, IP |-> instanceTapIP,
                       Gateway |-> hostTapIP, Netmask |-> "/30"]]

\* GetConnectInfo: the ID and the address of the ConnectInfo of an instance.
ConnectInfo(instance) == [ID |-> instance.Name, InternalAddr |-> instance.InstanceTapIP]

\* The template arguments ApplyNftables collects under the read lock.
TemplateArgs(insts) ==
    {[Name |-> insts[k].Name,
      InstanceTapIP |-> insts[k].InstanceTapIP,
      InstanceTapMacAddress |-> insts[k].InstanceTapMacAddress,
      InstanceGateway |-> insts[k].HostTapIP] : k \in DOMAIN insts}

\* Content of ruleset.nft between os.Create and the end of ExecuteTemplate.
Truncated == [complete |-> FALSE, rules |-> {}, text |-> <<>>]

\* Every order in which a range over the map can yield the names.
RECURSIVE Orders(_)
Orders(S) ==
    IF S = {} THEN {<<>>}
    ELSE UNION {{<<x>> \o rest : rest \in Orders(S \ {x})} : x \in S}

\* The slice ApplyNftables appends to while it ranges over the map: one
\* element for each instance, in the order in which the range yields the
\* names.
TemplateSlice(insts, order) ==
    [j \in DOMAIN order |->
        [Name |-> insts[order[j]].Name,
         InstanceTapIP |-> insts[order[j]].InstanceTapIP,
         InstanceTapMacAddress |-> insts[order[j]].InstanceTapMacAddress,
         InstanceGateway |-> insts[order[j]].HostTapIP]]

\* Content of ruleset.nft after ExecuteTemplate wrote the ruleset of a
\* snapshot: each range of the template writes the rules of the instances in
\* the order of the slice. text is the file as written, rules the instances
\* whose rules it holds.
Rendered(snap) ==
    [complete |-> TRUE, rules |-> {snap[j] : j \in DOMAIN snap}, text |-> snap]

\* A delete that leaves the entry in the map.
MapDeleteKept(m, key) == m

\* delete(m, key) on a map held as a function.
MapDelete(m, key) == [k \in DOMAIN m \ {key} |-> m[k]]

\* m[key] = value on a map held as a function.
MapPut(m, key, value) == [k \in DOMAIN m \cup {key} |-> IF k = key THEN value ELSE m[k]]

\* The goroutines are held as bags of records: goroutines in the same state
\* are interchangeable. Step replaces one copy of old by new.
Step(bag, old, new) == (bag (-) SetToBag({old})) (+) SetToBag({new})

\* Leave removes one copy of old.
Leave(bag, old) == bag (-) SetToBag({old})

\* Number of goroutines of the bag whose record is in S.
Count(bag, S) ==
    LET RECURSIVE Sum(_)
        Sum(T) == IF T = {} THEN 0
                  ELSE LET x == CHOOSE y \in T : TRUE
                       IN  CopiesIn(x, bag) + Sum(T \ {x})
    IN  Sum(S \cap BagToSet(bag))

\* A call of BootInstance between its entry and its return, or a reaper
\* between the return of Wait and the end of its ApplyNftables.
InProgress(rec) == rec.pc \notin {"idle", "do", "returned", "wait", "send"}

\* History: when track is set, every operation in progress records that the
\* map had the given content while it ran.
Observe(bag, content, track) ==
    LET RECURSIVE Map(_)
        Map(S) == IF S = {} THEN EmptyBag
                  ELSE LET x == CHOOSE y \in S : TRUE
                           new == IF InProgress(x)
                                  THEN [x EXCEPT !.seen = @ \cup {content}]
                                  ELSE x
                       IN  [e \in {new} |-> CopiesIn(x, bag)] (+) Map(S \ {x})
    IN  IF track THEN Map(BagToSet(bag)) ELSE bag

VARIABLES
    lock,          \* the RWMutex: "free", "held", or held for good: "leaked"
                   \* by a writer, "rleaked" by a reader
    prebuild,      \* the sync.Once: "idle", "running" or "done"
    shuttingDown,
    ipamSlots,
    instances,
    call,          \* the Increase callers, a bag of records
    reaper,        \* the reaper goroutines, a bag of records
    destroyer,     \* the caller of Shutdown or Decrease
    rulesetFile,   \* content of <VMDiskDir>/ruleset.nft
    applied,       \* the ruleset nft last loaded into the host
    crashed,       \* a goroutine panicked: the process is gone
    budget,        \* BootInstance calls the run may still ask for
    updater,       \* the caller of Update
    hist           \* history of the run, read by the properties only

vars == <<lock, prebuild, shuttingDown, ipamSlots, instances, call, reaper,
          destroyer, rulesetFile, applied, crashed, budget, updater, hist, vmSubnet>>

\* RLock returns: no writer holds the lock. A read lock that was never
\* released keeps every writer out and lets readers in.
RLockable == lock \in {"free", "rleaked"}

\* The goroutines of the bag that can take a step: none after a panic.
Goroutines(bag) == IF crashed THEN {} ELSE BagToSet(bag)

IdleCall ==
    [pc |-> "idle", mode |-> "worker", n |-> 0, counter |-> 0,
     takenSlots |-> 0, subnetBase |-> 0, snap |-> <<>>, seen |-> {},
     inserted |-> 0, succeeded |-> 0, err |-> "nil"]

\* startErr is what hypervisorCommand.Start() returned; the code drops it.
NewReaper(mode, subnetBase) ==
    [pc |-> "wait", mode |-> mode, subnetBase |-> subnetBase,
     command |-> HypervisorCommand(subnetBase), startErr |-> "nil",
     cancelled |-> FALSE, snap |-> <<>>, seen |-> {}]

IdleDestroyer ==
    [pc |-> "idle", op |-> "none", names |-> <<>>, name |-> <<>>, waitCounter |-> 0,
     removed |-> <<>>, err |-> "nil"]

\* The caller of Update: the calls made so far, the names GetAllInstances
\* returned and what the callback was given for the first of them.
IdleUpdater ==
    [pc |-> "idle", calls |-> 0, instances |-> <<>>, updated |-> <<>>]

\* NewInventory, and no call made yet. boots is the number of BootInstance
\* calls the run may ask for; track is whether the history records, for each
\* operation, the contents the map had while it ran; subnet is the vm_subnet
\* of the settings.
InitConfigured(boots, track, subnet) ==
    /\ lock = "free"
    /\ prebuild = "idle"
    /\ shuttingDown = FALSE
    /\ ipamSlots = {}
    /\ instances = <<>>
    /\ call = EmptyBag
    /\ reaper = EmptyBag
    /\ destroyer = IdleDestroyer
    /\ rulesetFile = Truncated
    /\ applied = {}
    /\ crashed = FALSE
    /\ budget = boots
    /\ updater = IdleUpdater
    /\ hist = [prebuildSpawned |-> 0, prebuildOk |-> FALSE, applyFailed |-> FALSE,
               track |-> track]
    /\ vmSubnet = subnet

\* With the vm_subnet of the README.
InitWith(boots, track) == InitConfigured(boots, track, VMSubnet)

Init == InitWith(MaxBoots, FALSE)

(***************************************************************************)
(* InstanceGroup.Increase and the return paths of BootInstance.            *)
(***************************************************************************)
\* Increase(ctx, n) is called: the loop starts with counter = 0.
Increase ==
    /\ ~crashed
    /\ \E n \in 1..budget :
         /\ call' = call (+) SetToBag({[IdleCall EXCEPT !.pc = "do", !.n = n]})
         /\ budget' = budget - n
    /\ UNCHANGED <<lock, prebuild, shuttingDown, ipamSlots, instances, reaper,
                   destroyer, rulesetFile, applied, crashed, hist, updater,
                   vmSubnet>>

\* A loop that counts the failed call too.
AfterBootCountsFailure(rec, e) ==
    IF e # "nil"
    THEN [IdleCall EXCEPT !.pc = "returned", !.n = rec.n, !.inserted = rec.inserted,
                          !.succeeded = rec.counter + 1, !.err = e]
    ELSE IF rec.counter + 1 < rec.n
         THEN [IdleCall EXCEPT !.pc = "do", !.n = rec.n, !.inserted = rec.inserted,
                               !.counter = rec.counter + 1]
         ELSE [IdleCall EXCEPT !.pc = "returned", !.n = rec.n,
                               !.inserted = rec.inserted, !.succeeded = rec.n]

\* The caller's record after BootInstance returned e to the loop of Increase:
\* an error ends the loop with (counter, err), success runs counter++ and
\* either calls BootInstance again or returns (n, nil).
AfterBoot(rec, e) ==
    IF e # "nil"
    THEN [IdleCall EXCEPT !.pc = "returned", !.n = rec.n, !.inserted = rec.inserted,
                          !.succeeded = rec.counter, !.err = e]
    ELSE IF rec.counter + 1 < rec.n
         THEN [IdleCall EXCEPT !.pc = "do", !.n = rec.n, !.inserted = rec.inserted,
                               !.counter = rec.counter + 1]
         ELSE [IdleCall EXCEPT !.pc = "returned", !.n = rec.n,
                               !.inserted = rec.inserted, !.succeeded = rec.n]

\* A guard that lets a second caller in while the function runs.
OnceDoUnguarded(once) == IF once = "done" THEN "pass" ELSE "run"

\* sync.Once.Do as entered with the Once in state once: "run" for the first
\* caller, "block" while the function runs, "pass" after it returned.
OnceDo(once) ==
    IF once = "idle" THEN "run"
    ELSE IF once = "running" THEN "block"
    ELSE "pass"

\* BootInstance up to the end of prebuild.Do.
BootInstance_Once(c) ==
    /\ c.pc = "do"
    /\ OnceDo(prebuild) # "block"
    /\ IF OnceDo(prebuild) = "run"
       THEN /\ prebuild' = "running"
            /\ call' = Observe(Step(call, c, [c EXCEPT !.pc = "prep", !.mode = "prebuild"]),
                               TemplateArgs(instances), hist.track)
       ELSE /\ prebuild' = prebuild
            /\ call' = Observe(Step(call, c, [c EXCEPT !.pc = "rlock", !.mode = "worker"]),
                               TemplateArgs(instances), hist.track)
    /\ UNCHANGED <<lock, shuttingDown, ipamSlots, instances, reaper, destroyer,
                   rulesetFile, applied, crashed, hist, budget, updater,
                   vmSubnet>>

\* A Once that is never marked done.
OnceStaysRunning(err) == "running"

\* The state of the Once after the function passed to Do returned err.
OnceAfter(err) == "done"

\* A step of BootInstance (mode worker) or of PrebuildInstance run inside
\* prebuild.Do (mode prebuild) returns e. A prebuild error leaves Do, which
\* marks the Once, and BootInstance returns it; a prebuild success leaves
\* Do the same way and BootInstance goes on to its own read lock.
Return(c, e) ==
    IF c.mode = "prebuild"
    THEN /\ prebuild' = OnceAfter(e)
         /\ call' = Step(call, c,
                IF e # "nil" THEN AfterBoot(c, e)
                ELSE [IdleCall EXCEPT !.pc = "rlock", !.n = c.n, !.counter = c.counter,
                                      !.inserted = c.inserted, !.seen = c.seen])
    ELSE /\ prebuild' = prebuild
         /\ call' = Step(call, c, AfterBoot(c, e))

(***************************************************************************)
(* BootInstance and PrebuildInstance: allocation and insertion.            *)
(***************************************************************************)
\* RLock; takenSlots := len(ipamSlots); RUnlock.
RLockTaken(c) ==
    /\ RLockable
    /\ call' = Step(call, c, [c EXCEPT !.pc = "lock", !.takenSlots = Cardinality(ipamSlots)])
    /\ UNCHANGED <<lock, prebuild, shuttingDown, ipamSlots, instances, reaper,
                   destroyer, rulesetFile, applied, crashed, hist, budget, updater,
                   vmSubnet>>

\* BootInstance after prebuild.Do: the read of len(ipamSlots).
ReadTaken(c) ==
    /\ c.pc = "rlock"
    /\ RLockTaken(c)

\* RunPrebuild before PrebuildInstance: prepareWorkdir and ensureImages,
\* which touch the work directory only, and on success the first read lock
\* of PrebuildInstance.
RunPrebuild_Prepare(c) ==
    /\ c.pc = "prep"
    /\ \/ /\ Return(c, "image")
          /\ UNCHANGED <<lock, shuttingDown, ipamSlots, instances, reaper, destroyer,
                         rulesetFile, applied, crashed, hist, budget, updater,
                   vmSubnet>>
       \/ RLockTaken(c)

\* The short circuit, then Lock, the shuttingDown check, the walk and the
\* reservation of the slot. The lock stays held.
AllocateSlot(c) ==
    /\ c.pc = "lock"
    /\ \/ /\ c.takenSlots >= MaxIPAMSlots
          /\ Return(c, "exhausted")
          /\ UNCHANGED <<lock, ipamSlots>>
       \/ /\ c.takenSlots < MaxIPAMSlots
          /\ lock = "free"
          /\ IF ShutdownCheck(shuttingDown)
             THEN /\ Return(c, "shutdown")
                  /\ UNCHANGED <<lock, ipamSlots>>
             ELSE IF Walk(ipamSlots) = Exhausted
             THEN /\ Return(c, "exhausted")
                  /\ UNCHANGED <<lock, ipamSlots>>
             ELSE /\ lock' = "held"
                  /\ ipamSlots' = ipamSlots \cup {CIDR(Walk(ipamSlots))}
                  /\ call' = Step(call, c, [c EXCEPT !.pc = "prepare",
                                                     !.subnetBase = Walk(ipamSlots)])
                  /\ prebuild' = prebuild
    /\ UNCHANGED <<shuttingDown, instances, reaper, destroyer, rulesetFile,
                   applied, crashed, hist, budget, updater,
                   vmSubnet>>

\* The calls between the reservation and the hypervisor that can fail.
\* BootInstance: GenerateKey, rand.Read, createUserdata, createOverlay,
\* getKernelFilePath. PrebuildInstance: rand.Read, createUserdataPrebuild,
\* getFilenameFromURL, getKernelFilePath.
PrepareFailures(mode) ==
    IF mode = "worker"
    THEN {"key", "mac", "userdata", "overlay", "kernel"}
    ELSE {"mac", "userdata", "filename", "kernel"}

\* The lock after the return path of a failure. PrebuildInstance returns the
\* error of getFilenameFromURL without unlocking.
LockAfterFailure(mode, failure) ==
    IF mode = "prebuild" /\ failure = "filename" THEN "leaked" ELSE "free"

\* What an error path between the reservation and the hypervisor does to the
\* slot set: nothing.
SlotsAfterFailure(slots, subnetBase) == slots

\* Under the lock: key, MAC, user-data image, overlay and kernel path; then
\* hypervisorCommand.Start(), whose error is dropped, the go statement that
\* starts the reaper, the insertion into the map and Unlock.  startErrs are
\* the results of Start() the step may draw: the statements after Start()
\* are the same for each of them.
PrepareAndInsertWith(c, startErrs) ==
    /\ c.pc = "prepare"
    /\ \E outcome \in {"ok"} \cup PrepareFailures(c.mode) :
         IF outcome = "ok"
         THEN /\ instances' = MapPut(instances, InstanceName(c.subnetBase),
                                     InstanceInfo(c.mode, c.subnetBase))
              /\ lock' = "free"
              /\ \E startErr \in startErrs :
                   reaper' = Observe(reaper, TemplateArgs(instances'), hist.track)
                              (+) SetToBag({[NewReaper(c.mode, c.subnetBase)
                                               EXCEPT !.startErr = startErr]})
              /\ call' = Observe(Step(call, c, [c EXCEPT !.pc = "tap", !.inserted =
                                     IF c.mode = "worker" THEN @ + 1 ELSE @]),
                                 TemplateArgs(instances'), hist.track)
              /\ hist' = [hist EXCEPT !.prebuildSpawned =
                             IF c.mode = "prebuild" THEN @ + 1 ELSE @]
              /\ UNCHANGED <<prebuild, ipamSlots>>
         ELSE /\ lock' = LockAfterFailure(c.mode, outcome)
              /\ ipamSlots' = SlotsAfterFailure(ipamSlots, c.subnetBase)
              /\ Return(c, "boot")
              /\ UNCHANGED <<instances, reaper, hist>>
    /\ UNCHANGED <<shuttingDown, destroyer, rulesetFile, applied, crashed, budget, updater, vmSubnet>>

\* The step with a child that starts; a child that exits at once makes
\* Wait return as early as one that never started.
PrepareAndInsert(c) == PrepareAndInsertWith(c, {"nil"})

\* The step with both results of Start().
PrepareAndInsert_Start(c) == PrepareAndInsertWith(c, {"nil", "failed"})

(***************************************************************************)
(* ApplyNftables, as called at the end of BootInstance and                 *)
(* PrebuildInstance.                                                       *)
(***************************************************************************)
\* What nft -f leaves loaded in the host: the tables of the file when the
\* file holds a complete ruleset and nft succeeds, else what was loaded.
NftLoad(file, loaded, ok) ==
    IF ok /\ file.complete THEN file.rules ELSE loaded

\* The TAP wait loop, which touches no shared state: the device appears, the
\* budget elapses, or net.Interfaces fails and the error is returned. Then
\* ApplyNftables up to RUnlock: collect the template arguments from the map.
\* snapshot is what the caller keeps of the map.
WaitForTapThen(c, snapshot) ==
    /\ c.pc = "tap"
    /\ \E outcome \in {"ready", "elapsed", "error"} :
         IF outcome = "error"
         THEN Return(c, "tap")
         ELSE /\ RLockable
              /\ call' = Step(call, c, [c EXCEPT !.pc = "create", !.snap = snapshot])
              /\ prebuild' = prebuild
    /\ UNCHANGED <<lock, shuttingDown, ipamSlots, instances, reaper, destroyer,
                   rulesetFile, applied, crashed, hist, budget, updater,
                   vmSubnet>>

\* With the ruleset modelled.
WaitForTap_Snapshot(c) ==
    \E order \in Orders(DOMAIN instances) :
        WaitForTapThen(c, TemplateSlice(instances, order))

\* With ApplyNftables reduced to its read lock and its result: after the TAP
\* wait loop, RLock and RUnlock, then os.Create, ExecuteTemplate or nft
\* fails, or all succeed. The ruleset file and the host's ruleset are left
\* out, so that the steps after RUnlock touch no shared state. The result
\* PrebuildInstance tests is any of the two, which covers the reaper's write
\* to the same err variable. template.ParseFS reads the templates embedded
\* in the binary and is taken to succeed.
WaitForTap(c) ==
    /\ c.pc = "tap"
    /\ \E outcome \in {"ready", "elapsed", "error"} :
         IF outcome = "error"
         THEN Return(c, "tap")
         ELSE /\ RLockable
              /\ \E ok \in BOOLEAN :
                   IF ok /\ c.mode = "prebuild"
                   THEN /\ call' = Step(call, c, [c EXCEPT !.pc = "pwait"])
                        /\ prebuild' = prebuild
                   ELSE Return(c, IF ok THEN "nil" ELSE "filter")
    /\ UNCHANGED <<lock, shuttingDown, ipamSlots, instances, reaper, destroyer,
                   rulesetFile, applied, crashed, hist, budget, updater,
                   vmSubnet>>

\* The values the test of err after ApplyNftables can read, as whether it
\* reads an error. PrebuildInstance assigns the result to the err variable
\* that its reaper assigns the result of os.Remove to, without
\* synchronisation: while the reaper has not taken the lock, the test reads
\* either. BootInstance returns the result itself.
ErrRead(c, failed) ==
    IF c.mode = "prebuild"
       /\ \E r \in BagToSet(reaper) : r.mode = "prebuild" /\ r.pc = "wait"
    THEN BOOLEAN
    ELSE {failed}

\* ApplyNftables returns to BootInstance, which returns its result, or to
\* PrebuildInstance, which returns an error or goes on to wait for
\* prebuildDone.
ApplyReturns(c, failed) ==
    \E e \in ErrRead(c, failed) :
         IF ~e /\ c.mode = "prebuild"
         THEN /\ call' = Step(call, c, [c EXCEPT !.pc = "pwait", !.snap = <<>>])
              /\ prebuild' = prebuild
         ELSE Return(c, IF e THEN "filter" ELSE "nil")

\* os.Create(rulesetPath) truncates the file, or fails.
Apply_Create(c) ==
    /\ c.pc = "create"
    /\ \E ok \in BOOLEAN :
         IF ok
         THEN /\ rulesetFile' = Truncated
              /\ call' = Step(call, c, [c EXCEPT !.pc = "render"])
              /\ UNCHANGED <<prebuild, hist>>
         ELSE /\ rulesetFile' = rulesetFile
              /\ hist' = [hist EXCEPT !.applyFailed = TRUE]
              /\ ApplyReturns(c, TRUE)
    /\ UNCHANGED <<lock, shuttingDown, ipamSlots, instances, reaper, destroyer,
                   applied, crashed, budget, updater,
                   vmSubnet>>

\* ExecuteTemplate writes the ruleset of the snapshot and the file is closed,
\* or the write fails and leaves a part of the ruleset.
Apply_Render(c) ==
    /\ c.pc = "render"
    /\ \E ok \in BOOLEAN :
         IF ok
         THEN /\ rulesetFile' = Rendered(c.snap)
              /\ call' = Step(call, c, [c EXCEPT !.pc = "nft"])
              /\ UNCHANGED <<prebuild, hist>>
         ELSE /\ rulesetFile' = Truncated
              /\ hist' = [hist EXCEPT !.applyFailed = TRUE]
              /\ ApplyReturns(c, TRUE)
    /\ UNCHANGED <<lock, shuttingDown, ipamSlots, instances, reaper, destroyer,
                   applied, crashed, budget, updater,
                   vmSubnet>>

\* exec.Command("nft", "-f", rulesetPath).Run() and the return of
\* ApplyNftables.
Apply_Nft(c) ==
    /\ c.pc = "nft"
    /\ \E ok \in BOOLEAN :
         /\ applied' = NftLoad(rulesetFile, applied, ok)
         /\ hist' = [hist EXCEPT !.applyFailed = @ \/ ~ok]
         /\ ApplyReturns(c, ~ok)
    /\ UNCHANGED <<lock, shuttingDown, ipamSlots, instances, reaper, destroyer,
                   rulesetFile, crashed, budget, updater,
                   vmSubnet>>

(***************************************************************************)
(* The reaper goroutine of an instance.                                    *)
(***************************************************************************)
\* A critical section that keeps the key of the slot.
ReleaseSlotKept(slots, subnetBase) == slots

\* What the reaper's critical section leaves in the slot set.
ReleaseSlot(slots, subnetBase) == slots \ {CIDR(subnetBase)}

\* hypervisorCommand.Wait() returns (the child exited, was killed by the
\* cancelled context, or never started) and the overlay and the user-data
\* image are removed, which touches no shared state. Then Lock; delete the
\* slot; delete the instance; Unlock.
Reaper_Remove(r) ==
    /\ r.pc = "wait"
    /\ lock = "free"
    /\ ipamSlots' = ReleaseSlot(ipamSlots, r.subnetBase)
    /\ instances' = MapDelete(instances, InstanceName(r.subnetBase))
    /\ reaper' = Observe(Observe(Step(reaper, r, [r EXCEPT !.pc = "snap"]),
                                 TemplateArgs(instances), hist.track),
                         TemplateArgs(instances'), hist.track)
    /\ call' = Observe(call, TemplateArgs(instances'), hist.track)
    /\ UNCHANGED <<lock, prebuild, shuttingDown, destroyer, rulesetFile,
                   applied, crashed, hist, budget, updater,
                   vmSubnet>>

\* The reaper after its ApplyNftables returned: the worker's reaper ends,
\* the prebuild's reaper sends on prebuildDone.
AfterReaperApply(bag, r) ==
    IF r.mode = "prebuild"
    THEN Step(bag, r, [r EXCEPT !.pc = "send", !.snap = <<>>, !.seen = {}])
    ELSE Leave(bag, r)

\* The reaper's ApplyNftables up to RUnlock. snapshot is what the reaper
\* keeps of the map.
ReaperRLock(r, snapshot) ==
    /\ r.pc = "snap"
    /\ RLockable
    /\ reaper' = Step(reaper, r, [r EXCEPT !.pc = "create", !.snap = snapshot])
    /\ UNCHANGED <<lock, prebuild, shuttingDown, ipamSlots, instances, call,
                   destroyer, rulesetFile, applied, crashed, hist, budget, updater,
                   vmSubnet>>

\* With the ruleset modelled.
Reaper_Snapshot(r) ==
    \E order \in Orders(DOMAIN instances) :
        ReaperRLock(r, TemplateSlice(instances, order))

\* With ApplyNftables reduced to its read lock: RLock and RUnlock, then the
\* file and nft, whose error the reaper drops.
Reaper_Apply(r) ==
    /\ r.pc = "snap"
    /\ RLockable
    /\ reaper' = AfterReaperApply(reaper, r)
    /\ UNCHANGED <<lock, prebuild, shuttingDown, ipamSlots, instances, call,
                   destroyer, rulesetFile, applied, crashed, hist, budget, updater,
                   vmSubnet>>

\* The reaper's os.Create: the file is truncated, or ApplyNftables returns
\* an error, which the reaper drops.
Reaper_Create(r) ==
    /\ r.pc = "create"
    /\ \E ok \in BOOLEAN :
         IF ok
         THEN /\ rulesetFile' = Truncated
              /\ reaper' = Step(reaper, r, [r EXCEPT !.pc = "render"])
              /\ hist' = hist
         ELSE /\ rulesetFile' = rulesetFile
              /\ hist' = [hist EXCEPT !.applyFailed = TRUE]
              /\ reaper' = AfterReaperApply(reaper, r)
    /\ UNCHANGED <<lock, prebuild, shuttingDown, ipamSlots, instances, call,
                   destroyer, applied, crashed, budget, updater,
                   vmSubnet>>

\* The reaper's ExecuteTemplate.
Reaper_Render(r) ==
    /\ r.pc = "render"
    /\ \E ok \in BOOLEAN :
         IF ok
         THEN /\ rulesetFile' = Rendered(r.snap)
              /\ reaper' = Step(reaper, r, [r EXCEPT !.pc = "nft"])
              /\ hist' = hist
         ELSE /\ rulesetFile' = Truncated
              /\ hist' = [hist EXCEPT !.applyFailed = TRUE]
              /\ reaper' = AfterReaperApply(reaper, r)
    /\ UNCHANGED <<lock, prebuild, shuttingDown, ipamSlots, instances, call,
                   destroyer, applied, crashed, budget, updater,
                   vmSubnet>>

\* The reaper's nft -f; the reaper drops the result of ApplyNftables.
Reaper_Nft(r) ==
    /\ r.pc = "nft"
    /\ \E ok \in BOOLEAN :
         /\ applied' = NftLoad(rulesetFile, applied, ok)
         /\ hist' = [hist EXCEPT !.applyFailed = @ \/ ~ok]
    /\ reaper' = AfterReaperApply(reaper, r)
    /\ UNCHANGED <<lock, prebuild, shuttingDown, ipamSlots, instances, call,
                   destroyer, rulesetFile, crashed, budget, updater,
                   vmSubnet>>

\* prebuildDone <- struct{}{} meets <-prebuildDone: the channel is
\* unbuffered. PrebuildInstance returns nil, RunPrebuild returns nil, Do
\* returns and BootInstance goes on.
Prebuild_Done(c) ==
    /\ c.pc = "pwait"
    /\ \E r \in BagToSet(reaper) :
         /\ r.pc = "send"
         /\ reaper' = Leave(reaper, r)
    /\ Return(c, "nil")
    /\ hist' = [hist EXCEPT !.prebuildOk = TRUE]
    /\ UNCHANGED <<lock, shuttingDown, ipamSlots, instances, destroyer,
                   rulesetFile, applied, crashed, budget, updater,
                   vmSubnet>>

(***************************************************************************)
(* DestroyInstance, DestroyAllInstances (Shutdown) and Decrease.           *)
(***************************************************************************)
\* The lists of names a Decrease call can pass: distinct names, in any
\* order, whether or not they are in the map.
DecreaseInputs == UNION {Orders(S) : S \in SUBSET Names \ {{}}}

\* The caller's loop over its names: call DestroyInstance on the next name,
\* or return when none is left.
NextName(rec) ==
    IF rec.names = <<>>
    THEN [rec EXCEPT !.pc = "returned", !.name = <<>>, !.waitCounter = 0]
    ELSE [rec EXCEPT !.pc = "cancel", !.name = Head(rec.names),
                     !.names = Tail(rec.names), !.waitCounter = 0]

\* Shutdown: DestroyAllInstances up to its loop: Lock; shuttingDown = true;
\* collect the names; Unlock. A run makes one call of Shutdown or Decrease.
DestroyAllInstances ==
    /\ ~crashed
    /\ destroyer.pc = "idle"
    /\ lock = "free"
    /\ shuttingDown' = TRUE
    /\ \E order \in Orders(DOMAIN instances) :
         destroyer' = NextName([IdleDestroyer EXCEPT !.op = "shutdown", !.names = order])
    /\ UNCHANGED <<lock, prebuild, ipamSlots, instances, call, reaper,
                   rulesetFile, applied, crashed, hist, budget, updater,
                   vmSubnet>>

\* Decrease(ctx, instances) up to its first DestroyInstance.
Decrease ==
    /\ ~crashed
    /\ destroyer.pc = "idle"
    /\ \E input \in DecreaseInputs :
         destroyer' = NextName([IdleDestroyer EXCEPT !.op = "decrease", !.names = input])
    /\ UNCHANGED <<lock, prebuild, shuttingDown, ipamSlots, instances, call,
                   reaper, rulesetFile, applied, crashed, hist, budget, updater,
                   vmSubnet>>

\* InstanceContextCancelFunc(): the context of the child on subnetBase is
\* cancelled.
Cancel(bag, subnetBase) ==
    IF \E r \in BagToSet(bag) : r.pc = "wait" /\ r.subnetBase = subnetBase
    THEN LET r == CHOOSE x \in BagToSet(bag) : x.pc = "wait" /\ x.subnetBase = subnetBase
         IN  Step(bag, r, [r EXCEPT !.cancelled = TRUE])
    ELSE bag

\* Lock; i.instances[name].InstanceContextCancelFunc(); Unlock. A name that
\* is not in the map yields a nil *InstanceInfo, and the field access panics.
Destroy_Cancel ==
    /\ ~crashed
    /\ destroyer.pc = "cancel"
    /\ lock = "free"
    /\ IF destroyer.name \in DOMAIN instances
       THEN /\ reaper' = Cancel(reaper, instances[destroyer.name].InstanceContextCancelFunc)
            /\ destroyer' = [destroyer EXCEPT !.pc = "poll"]
            /\ crashed' = crashed
       ELSE /\ crashed' = TRUE
            /\ UNCHANGED <<reaper, destroyer>>
    /\ UNCHANGED <<lock, prebuild, shuttingDown, ipamSlots, instances, call,
                   rulesetFile, applied, hist, budget, updater,
                   vmSubnet>>

\* A poll that looks at the budget before it looks the name up.
PollResultBudgetFirst(present, waitCounter) ==
    IF waitCounter + 1 > DestroyPolls THEN "timeout"
    ELSE IF ~present THEN "nil"
    ELSE "sleep"

\* The result of one poll of DestroyInstance: "nil" when the entry is gone,
\* "timeout" when the counter passes the budget, "sleep" otherwise.
PollResult(present, waitCounter) ==
    IF ~present THEN "nil"
    ELSE IF waitCounter + 1 > DestroyPolls THEN "timeout"
    ELSE "sleep"

\* The caller after DestroyInstance returned e: DestroyAllInstances returns
\* the first error, Decrease skips the name and appends the names destroyed.
AfterDestroy(rec, e) ==
    IF rec.op = "shutdown"
    THEN IF e = "nil" THEN NextName(rec)
         ELSE [rec EXCEPT !.pc = "returned", !.err = e, !.waitCounter = 0]
    ELSE IF e = "nil" THEN NextName([rec EXCEPT !.removed = Append(@, rec.name)])
         ELSE NextName(rec)

\* One round of the wait loop: RLock; look the name up; RUnlock; return nil,
\* return the timeout, or sleep.
Destroy_Poll ==
    /\ ~crashed
    /\ destroyer.pc = "poll"
    /\ RLockable
    /\ LET res == PollResult(destroyer.name \in DOMAIN instances, destroyer.waitCounter)
       IN  destroyer' = IF res = "sleep" THEN [destroyer EXCEPT !.waitCounter = @ + 1]
                        ELSE AfterDestroy(destroyer, res)
    /\ UNCHANGED <<lock, prebuild, shuttingDown, ipamSlots, instances, call,
                   reaper, rulesetFile, applied, crashed, hist, budget, updater,
                   vmSubnet>>

(***************************************************************************)
(* Update, Heartbeat, GetAllInstances and GetConnectInfo.                  *)
(***************************************************************************)
\* Update(ctx, updateFunc) is called, after the Update before it returned.
Update ==
    /\ ~crashed
    /\ updater.pc \in {"idle", "returned"}
    /\ updater.calls < MaxUpdates
    /\ updater' = [IdleUpdater EXCEPT !.pc = "all", !.calls = updater.calls + 1]
    /\ UNCHANGED <<lock, prebuild, shuttingDown, ipamSlots, instances, call, reaper,
                   destroyer, rulesetFile, applied, crashed, budget, hist,
                   vmSubnet>>

\* GetAllInstances: RLock; range over the map, in any order; RUnlock.
GetAllInstances ==
    /\ ~crashed
    /\ updater.pc = "all"
    /\ RLockable
    /\ \E order \in Orders(DOMAIN instances) :
         updater' = [updater EXCEPT !.instances = order,
                                    !.pc = IF order = <<>> THEN "returned" ELSE "heartbeat"]
    /\ UNCHANGED <<lock, prebuild, shuttingDown, ipamSlots, instances, call, reaper,
                   destroyer, rulesetFile, applied, crashed, budget, hist,
                   vmSubnet>>

\* The error of GetConnectInfo(name): the name is not in the map, or
\* ssh.MarshalPrivateKey is given the nil key of the prebuild instance.
GetConnectInfoErr(name) ==
    IF name \notin DOMAIN instances THEN "instance not found"
    ELSE IF instances[name].SSHPrivateKey = "nil" THEN "marshal"
    ELSE "nil"

\* The lock after GetConnectInfo, which took the read lock: the two error
\* returns come before RUnlock.
LockAfterGetConnectInfo(err) == IF err = "nil" THEN lock ELSE "rleaked"

\* The state Update hands to updateFunc after Heartbeat returned err.
StateAfterHeartbeat(err) == IF err = "nil" THEN "Running" ELSE "Creating"

\* One round of the loop of Update. Heartbeat: GetConnectInfo, and when it
\* returns the address, net.DialTimeout on port 22, which connects or fails.
\* Then updateFunc with Running or Creating.
Update_Heartbeat ==
    /\ ~crashed
    /\ updater.pc = "heartbeat"
    /\ RLockable
    /\ LET name == updater.instances[Len(updater.updated) + 1]
           err == GetConnectInfoErr(name)
       IN  /\ lock' = LockAfterGetConnectInfo(err)
           /\ \E probe \in IF err = "nil" THEN {"connected", "failed"} ELSE {"none"} :
                LET hb == IF probe = "connected" THEN "nil" ELSE "error"
                    updated == Append(updater.updated,
                                      [instance |-> name, probe |-> probe,
                                       state |-> StateAfterHeartbeat(hb)])
                IN  updater' = [updater EXCEPT !.updated = updated,
                                   !.pc = IF Len(updated) = Len(updater.instances)
                                          THEN "returned" ELSE "heartbeat"]
    /\ UNCHANGED <<prebuild, shuttingDown, ipamSlots, instances, call, reaper,
                   destroyer, rulesetFile, applied, crashed, budget, hist,
                   vmSubnet>>

\* A goroutine whose next operation on the lock is Lock(): a BootInstance
\* past its short circuit, a reaper whose child may have exited, a
\* DestroyInstance before its cancel.
WriterWaiting ==
    \/ \E c \in BagToSet(call) : c.pc = "lock" /\ c.takenSlots < MaxIPAMSlots
    \/ \E r \in BagToSet(reaper) : r.pc = "wait"
    \/ destroyer.pc = "cancel"

\* RLock of GetAllInstances or GetConnectInfo while a read lock is held for
\* good and a writer waits in Lock(): the RWMutex queues the reader behind
\* the writer, and neither ever gets the lock.
Update_Blocks ==
    /\ ~crashed
    /\ updater.pc \in {"all", "heartbeat"}
    /\ lock = "rleaked"
    /\ WriterWaiting
    /\ updater' = [updater EXCEPT !.pc = "blocked"]
    /\ UNCHANGED <<lock, prebuild, shuttingDown, ipamSlots, instances, call, reaper,
                   destroyer, rulesetFile, applied, crashed, budget, hist,
                   vmSubnet>>

(***************************************************************************)
(* The specification.                                                      *)
(***************************************************************************)
\* The steps of BootInstance, PrebuildInstance and the reapers that do not
\* belong to ApplyNftables.
Booting ==
    \/ \E c \in Goroutines(call) : BootInstance_Once(c)
    \/ \E c \in Goroutines(call) : RunPrebuild_Prepare(c)
    \/ \E c \in Goroutines(call) : ReadTaken(c)
    \/ \E c \in Goroutines(call) : AllocateSlot(c)
    \/ \E c \in Goroutines(call) : PrepareAndInsert(c)
    \/ \E c \in Goroutines(call) : Prebuild_Done(c)
    \/ \E r \in Goroutines(reaper) : Reaper_Remove(r)

\* Increase called at any time, and the steps of its BootInstance calls.
Lifecycle == Increase \/ Booting

Destroying ==
    \/ DestroyAllInstances
    \/ Decrease
    \/ Destroy_Cancel
    \/ Destroy_Poll

\* ApplyNftables reduced to its read lock and its result.
Applying ==
    \/ \E c \in Goroutines(call) : WaitForTap(c)
    \/ \E r \in Goroutines(reaper) : Reaper_Apply(r)

\* ApplyNftables step by step, with the ruleset file and the host's ruleset.
ApplyingNftables ==
    \/ \E c \in Goroutines(call) : WaitForTap_Snapshot(c)
    \/ \E c \in Goroutines(call) : Apply_Create(c)
    \/ \E c \in Goroutines(call) : Apply_Render(c)
    \/ \E c \in Goroutines(call) : Apply_Nft(c)
    \/ \E r \in Goroutines(reaper) : Reaper_Snapshot(r)
    \/ \E r \in Goroutines(reaper) : Reaper_Create(r)
    \/ \E r \in Goroutines(reaper) : Reaper_Render(r)
    \/ \E r \in Goroutines(reaper) : Reaper_Nft(r)

\* Increase, Decrease and Shutdown called concurrently.
Next == Lifecycle \/ Applying \/ Destroying

Spec == Init /\ [][Next]_vars

\* Increase alone, with one BootInstance call more than there are slots.
InitAlloc == InitWith(MaxBootsAlone, FALSE)

NextAlloc == Lifecycle \/ Applying

SpecAlloc == InitAlloc /\ [][NextAlloc]_vars

\* Increase alone, each call made after the calls before it have returned:
\* the callers take turns while the reapers run beside them.
InitInTurn == InitWith(MaxBootsInTurn, FALSE)

IncreaseInTurn ==
    /\ \A c \in BagToSet(call) : c.pc = "returned"
    /\ Increase

NextInTurn == IncreaseInTurn \/ Booting \/ Applying

SpecInTurn == InitInTurn /\ [][NextInTurn]_vars

\* The errors BootInstance returns from its external tools: the images, the
\* calls between the reservation and the hypervisor, the interface list and
\* the packet filter.
ToolErrors == {"image", "boot", "tap", "filter"}

\* External tools that succeed: no call has returned the error of a tool or
\* left the lock held on such an error, and the hypervisor of a worker keeps
\* running, so that its reaper waits.
ToolsSucceed ==
    /\ \A c \in BagToSet(call) : c.err \notin ToolErrors
    /\ \A r \in BagToSet(reaper) : r.mode = "worker" => r.pc = "wait"
    /\ lock # "leaked"

\* The first boot: an empty inventory and as many BootInstance calls as the
\* address space has bases, or fewer.
InitFirstBoot == \E boots \in 1..Cardinality(Bases) : InitWith(boots, FALSE)

\* Increase called concurrently, with tools that succeed; ApplyNftables step
\* by step.
NextFirstBoot ==
    \/ Increase /\ ToolsSucceed'
    \/ \E c \in Goroutines(call) : BootInstance_Once(c) /\ ToolsSucceed'
    \/ \E c \in Goroutines(call) : RunPrebuild_Prepare(c) /\ ToolsSucceed'
    \/ \E c \in Goroutines(call) : ReadTaken(c) /\ ToolsSucceed'
    \/ \E c \in Goroutines(call) : AllocateSlot(c) /\ ToolsSucceed'
    \/ \E c \in Goroutines(call) : PrepareAndInsert(c) /\ ToolsSucceed'
    \/ \E c \in Goroutines(call) : Prebuild_Done(c) /\ ToolsSucceed'
    \/ \E r \in Goroutines(reaper) : Reaper_Remove(r) /\ ToolsSucceed'
    \/ \E c \in Goroutines(call) : WaitForTap_Snapshot(c) /\ ToolsSucceed'
    \/ \E c \in Goroutines(call) : Apply_Create(c) /\ ToolsSucceed'
    \/ \E c \in Goroutines(call) : Apply_Render(c) /\ ToolsSucceed'
    \/ \E c \in Goroutines(call) : Apply_Nft(c) /\ ToolsSucceed'
    \/ \E r \in Goroutines(reaper) : Reaper_Snapshot(r) /\ ToolsSucceed'
    \/ \E r \in Goroutines(reaper) : Reaper_Create(r) /\ ToolsSucceed'
    \/ \E r \in Goroutines(reaper) : Reaper_Render(r) /\ ToolsSucceed'
    \/ \E r \in Goroutines(reaper) : Reaper_Nft(r) /\ ToolsSucceed'

\* Fair scheduling: a step that stays possible is taken. The calls are made,
\* the goroutines run and the child of the prebuild instance exits.
SpecFirstBoot == InitFirstBoot /\ [][NextFirstBoot]_vars /\ WF_vars(NextFirstBoot)

\* Update called again and again while Increase calls boot instances.
Updating ==
    \/ Update
    \/ GetAllInstances
    \/ Update_Heartbeat
    \/ Update_Blocks

NextUpdate == Lifecycle \/ Applying \/ Updating

SpecUpdate == Init /\ [][NextUpdate]_vars

\* Increase alone, with the ruleset file and the host's ruleset.
InitFilter == InitWith(MaxBoots, TRUE)

NextFilter == Lifecycle \/ ApplyingNftables

SpecFilter == InitFilter /\ [][NextFilter]_vars

(***************************************************************************)
(* Properties.                                                             *)
(***************************************************************************)
\* The children that are running, or whose exit the reaper has not yet acted
\* on: one reaper at Wait for each.
Live == {r \in BagToSet(reaper) : r.pc = "wait"}

\* C1: slot uniqueness. Any two distinct instances of the map were allocated
\* different slot bases, and so have different TAP addresses; the instances of
\* the map are the live children, one child for each base in use.
C1_SlotUniqueness ==
    /\ \A k1, k2 \in DOMAIN instances :
          k1 # k2 => /\ instances[k1].InstanceContextCancelFunc
                           # instances[k2].InstanceContextCancelFunc
                     /\ instances[k1].HostTapIP # instances[k2].HostTapIP
                     /\ instances[k1].InstanceTapIP # instances[k2].InstanceTapIP
    /\ \A r \in Live : CopiesIn(r, reaper) = 1
    /\ \A r1, r2 \in Live : r1 # r2 => r1.subnetBase # r2.subnetBase
    /\ lock = "free" => DOMAIN instances = {InstanceName(r.subnetBase) : r \in Live}

\* Two instances are in the map while a Shutdown or Decrease call is under way.
C1_Witness ==
    /\ Cardinality(DOMAIN instances) = 2
    /\ Cardinality(Live) = 2
    /\ destroyer.pc = "poll"

\* C2: slot conservation. Whenever the lock is free, the map has as many
\* entries as the slot set has keys.
C2_SlotConservation ==
    lock = "free" => Cardinality(DOMAIN instances) = Cardinality(ipamSlots)

\* C3: capacity cap. The map never has more than MaxIPAMSlots instances and
\* the slot set never more than MaxIPAMSlots keys.
C3_CapacityCap ==
    /\ Cardinality(DOMAIN instances) <= MaxIPAMSlots
    /\ Cardinality(ipamSlots) <= MaxIPAMSlots
    /\ Count(reaper, Live) <= MaxIPAMSlots

\* Every slot is taken by an instance and a further BootInstance found the
\* address space exhausted.
C3_Witness ==
    /\ Cardinality(DOMAIN instances) = MaxIPAMSlots
    /\ Cardinality(ipamSlots) = MaxIPAMSlots
    /\ \E c \in BagToSet(call) :
          c.pc = "returned" /\ c.err = "exhausted" /\ c.succeeded = 0

\* C4: shutdown monotonicity. Once shuttingDown is set it stays set, and no
\* step inserts an instance into the map or reserves a slot.
C4_ShutdownMonotonic ==
    [][shuttingDown => /\ shuttingDown'
                       /\ DOMAIN instances' \subseteq DOMAIN instances
                       /\ ipamSlots' \subseteq ipamSlots]_vars

\* A BootInstance that took the lock after DestroyAllInstances set the flag
\* returned the shutdown error.
C4_Witness ==
    /\ shuttingDown
    /\ \E c \in BagToSet(call) : c.pc = "returned" /\ c.err = "shutdown"

\* The callers inside prebuild.Do.
InPrebuild == {c \in BagToSet(call) : c.mode = "prebuild"}

\* C5: prebuild-once. At most one prebuild VM is ever spawned, at most one
\* caller runs the prebuild, and a BootInstance call is past the once-guard
\* only when the prebuild run has returned.
C5_PrebuildOnce ==
    /\ hist.prebuildSpawned <= 1
    /\ Count(call, InPrebuild) <= 1
    /\ prebuild = "running" <=> Count(call, InPrebuild) = 1
    /\ \A c \in BagToSet(call) :
          InProgress(c) /\ c.mode = "worker" => prebuild = "done"

\* The prebuild VM is spawned and another caller waits at the once-guard.
C5_Witness ==
    /\ prebuild = "running"
    /\ hist.prebuildSpawned = 1
    /\ \E c \in BagToSet(call) : c.pc = "do"

\* C6: prebuild retry. The barrier is done only after a prebuild run that
\* returned without error.
C6_PrebuildRetry == prebuild = "done" => hist.prebuildOk

\* C7: filter coherence. When a BootInstance returns success, and when a
\* reaper ends its ApplyNftables, no ApplyNftables having failed so far, the
\* ruleset loaded in the host is the rendering of a content the map had
\* between the start and the end of that operation.
C7_FilterCoherence ==
    [][~hist'.applyFailed =>
         /\ \A c \in BagToSet(call) :
               (/\ c.pc = "nft"
                /\ c.mode = "worker"
                /\ call' = Step(call, c, AfterBoot(c, "nil"))) => applied' \in c.seen
         /\ \A r \in BagToSet(reaper) :
               (/\ r.pc = "nft"
                /\ reaper' = AfterReaperApply(reaper, r)) => applied' \in r.seen]_vars

\* Every Increase call has returned without error, every reaper is waiting
\* for its child, and no ApplyNftables call has failed.
Quiescent ==
    /\ lock = "free"
    /\ \A c \in BagToSet(call) : c.pc = "returned" /\ c.err = "nil"
    /\ \A r \in BagToSet(reaper) : r.pc = "wait"
    /\ ~hist.applyFailed

\* C8: the ruleset is a function of the inventory. In every quiescent state
\* the ruleset loaded in the host has the rules of exactly the instances of
\* the map.
C8_RulesetOfInventory == Quiescent => applied = TemplateArgs(instances)

\* C9: shutdown empties the pool. Shutdown's calls of DestroyInstance all
\* return; when DestroyAllInstances returns it has called DestroyInstance on
\* every name of its snapshot and the map is empty; and no BootInstance gets
\* past the shuttingDown check once the flag is set.
C9_ShutdownEmptiesPool ==
    /\ destroyer.op = "shutdown" => ~crashed
    /\ (destroyer.op = "shutdown" /\ destroyer.pc = "returned") =>
          /\ destroyer.names = <<>>
          /\ instances = <<>>
    /\ shuttingDown => \A c \in BagToSet(call) : c.pc # "prepare"

\* C10: DestroyInstance. The call cancels the context of the child of the
\* instance it names. It returns nil only at a poll that finds the entry
\* absent; it returns the timeout exactly when the entry was present at each
\* poll of its budget, and then the instance and its slot are still registered.
C10_DestroyInstance ==
    [][/\ (destroyer.pc = "cancel" /\ destroyer'.pc = "poll") =>
            \E r \in BagToSet(reaper') :
                /\ r.pc = "wait"
                /\ r.cancelled
                /\ InstanceName(r.subnetBase) = destroyer.name
       /\ (destroyer.pc = "poll" /\ destroyer' = AfterDestroy(destroyer, "nil")) =>
            destroyer.name \notin DOMAIN instances
       /\ (destroyer.pc = "poll" /\ destroyer' = AfterDestroy(destroyer, "timeout")) =>
            /\ destroyer.waitCounter = DestroyPolls
            /\ destroyer.name \in DOMAIN instances'
            /\ CIDR(instances'[destroyer.name].InstanceContextCancelFunc) \in ipamSlots'
       /\ (/\ destroyer.pc = "poll"
           /\ destroyer' # destroyer
           /\ destroyer.name \in DOMAIN instances
           /\ destroyer.waitCounter = DestroyPolls) =>
            destroyer' = AfterDestroy(destroyer, "timeout")]_vars

\* DestroyInstance returned the timeout: the child it cancelled has not been
\* reaped and the instance is still in the map.
C10_Witness ==
    /\ destroyer.pc = "returned"
    /\ destroyer.err = "timeout"
    /\ destroyer.name \in DOMAIN instances
    /\ \E r \in Live : r.cancelled /\ InstanceName(r.subnetBase) = destroyer.name

\* The callers of Increase that have returned.
Returned == {c \in BagToSet(call) : c.pc = "returned"}

\* C11 as stated: Increase returns (k, err) where k is the number of worker
\* instances the call inserted into the inventory, and (n, nil) when all n
\* calls succeed.
C11_IncreaseReturnsBooted ==
    \A c \in Returned :
        /\ c.succeeded = c.inserted
        /\ c.err = "nil" => c.succeeded = c.n

\* C11 as amended: Increase calls BootInstance one call at a time and stops
\* at the first error; it returns (k, err) where k is the number of its
\* BootInstance calls that returned nil, and (n, nil) when all n did. The
\* call has inserted k workers, or k + 1 when the failing call failed in its
\* TAP wait or its filter apply, after its insertion.
C11_IncreaseCount ==
    \A c \in BagToSet(call) :
        /\ (c.pc = "returned" /\ c.err = "nil") =>
              c.succeeded = c.n /\ c.inserted = c.n
        /\ (c.pc = "returned" /\ c.err # "nil") =>
              /\ c.succeeded < c.n
              /\ c.inserted \in {c.succeeded, c.succeeded + 1}
              /\ c.inserted = c.succeeded + 1 => c.err \in {"tap", "filter"}
        /\ c.pc # "returned" =>
              /\ c.counter < c.n
              /\ c.inserted = IF c.mode = "worker"
                                 /\ c.pc \in {"tap", "create", "render", "nft"}
                              THEN c.counter + 1 ELSE c.counter

\* Increase(2) returned (1, err) with two workers inserted.
C11_Witness ==
    \E c \in Returned :
        c.n = 2 /\ c.succeeded = 1 /\ c.inserted = 2 /\ c.err = "filter"


\* C12: Decrease. Each DestroyInstance call that Decrease makes returns to
\* it, so that Decrease goes on to the next name; Decrease returns a nil
\* error with every name of its input handled, and the names it returns are
\* distinct names for which DestroyInstance returned nil.
C12_Decrease ==
    destroyer.op = "decrease" =>
        /\ ~crashed
        /\ destroyer.err = "nil"
        /\ destroyer.pc = "returned" => destroyer.names = <<>>
        /\ \A j, k \in DOMAIN destroyer.removed :
               j # k => destroyer.removed[j] # destroyer.removed[k]

\* The bases whose CIDR key is not in slots.
FreeBases(slots) == {b \in Bases : CIDR(b) \notin slots}

\* The calls that hold the lock between the reservation and the insertion.
Reserving(bag) == {c \in BagToSet(bag) : c.pc = "prepare"}

Children == {r \in BagToSet(reaper) : r.pc = "wait"}

\* Name determinism with a given name prefix. Every instance of the map sits
\* on a reserved base s; its name is the prefix followed by the decimal s / 4,
\* its host-TAP IP the subnet prefix followed by s + 1 and its guest-TAP IP
\* the subnet prefix followed by s + 2; the stored record, the command line of
\* its child, the user-data image and the ConnectInfo address carry these
\* same values.
NameDeterminism(prefix) ==
    /\ \A name \in DOMAIN instances :
         \E s \in Bases :
            /\ CIDR(s) \in ipamSlots
            /\ name = <<prefix, s \div 4>>
            /\ instances[name].Name = name
            /\ instances[name].HostTapIP = <<VMSubnet, s + 1>>
            /\ instances[name].InstanceTapIP = <<VMSubnet, s + 2>>
            /\ ConnectInfo(instances[name]).ID = name
            /\ ConnectInfo(instances[name]).InternalAddr = <<VMSubnet, s + 2>>
            /\ \E r \in Children : r.subnetBase = s
    /\ \A r \in BagToSet(reaper) :
         /\ r.command.tap = <<prefix, r.subnetBase \div 4>>
         /\ r.command.ip = <<VMSubnet, r.subnetBase + 1>>
         /\ r.command.userdata.InstanceName = r.command.tap
         /\ r.command.userdata.IP = <<VMSubnet, r.subnetBase + 2>>
         /\ r.command.userdata.Gateway = r.command.ip
         /\ r.pc = "wait" =>
               /\ r.command.tap \in DOMAIN instances
               /\ instances[r.command.tap].HostTapIP = r.command.ip
               /\ instances[r.command.tap].InstanceTapIP = r.command.userdata.IP

\* C14 as stated: name determinism, the name of the instance on base s being
\* "pool" followed by the decimal s / 4.
C14_PoolNames == NameDeterminism("pool")

\* C14 as amended: name determinism, the name of the instance on base s being
\* "fleetingd" followed by the decimal s / 4; the host-TAP IP is the prefix
\* followed by s + 1, the guest-TAP IP the prefix followed by s + 2, and the
\* stored record, the command line, the user-data image and the ConnectInfo
\* address use the same values.
C14_NameDeterminism == NameDeterminism("fleetingd")

\* Two instances are in the map, on the bases 0 and 4, with their children.
C14_Witness ==
    /\ DOMAIN instances = {<<"fleetingd", 0>>, <<"fleetingd", 1>>}
    /\ \E r \in Children : r.subnetBase = 4 /\ r.mode = "worker"

\* The step of the call c: its record leaves the bag.
Steps(c) == CopiesIn(c, call') < CopiesIn(c, call)

\* C15: exhaustion changes nothing and is recoverable. A BootInstance call
\* that has counted every base reserved, or that walks a slot set with no free
\* base, returns the exhaustion error; the step that returns that error leaves
\* the slot set, the map, the children and the lock as they were, and
\* Increase returns its count so far with the error: (0, error) for
\* Increase(1). A call that counts fewer reserved slots than there are bases
\* and walks a slot set with a free base reserves a free base.
C15_Exhaustion ==
    [][\A c \in BagToSet(call) :
         (c.pc = "lock" /\ Steps(c)) =>
            /\ (c.takenSlots >= MaxIPAMSlots \/ FreeBases(ipamSlots) = {}) =>
                  \E d \in BagToSet(call') :
                     /\ call' = Step(call, c, d)
                     /\ d.pc = "returned" /\ d.err = "exhausted"
            /\ \A d \in BagToSet(call') :
                  (call' = Step(call, c, d) /\ d.err = "exhausted") =>
                     /\ d.pc = "returned" /\ d.n = c.n /\ d.succeeded = c.counter
                     /\ d.inserted = c.inserted
                     /\ UNCHANGED <<ipamSlots, instances, reaper, lock, shuttingDown>>
            /\ (c.takenSlots < Cardinality(Bases) /\ FreeBases(ipamSlots) # {}) =>
                  \E d \in Reserving(call') :
                     /\ call' = Step(call, c, d)
                     /\ d.subnetBase \in FreeBases(ipamSlots)]_vars

\* Increase(1) returned (0, exhausted), and a call made after it, once an
\* instance had been reaped, has inserted a worker.
C15_Witness ==
    /\ \E d \in Returned : d.err = "exhausted" /\ d.n = 1 /\ d.succeeded = 0
    /\ \E c \in BagToSet(call) : c.pc = "tap" /\ c.mode = "worker" /\ c.inserted = 1

\* The BootInstance calls asked for by the Increase calls made so far.
RECURSIVE Asked(_)
Asked(bag) ==
    IF bag = EmptyBag THEN 0
    ELSE LET c == CHOOSE x \in BagToSet(bag) : TRUE
         IN  c.n + Asked(Leave(bag, c))

\* Every Increase call has been made and has returned, and each of the
\* workers asked for is in the map with its child, on a base of its own.
AllBooted ==
    /\ budget = 0
    /\ \A c \in BagToSet(call) : c.pc = "returned"
    /\ Cardinality(DOMAIN instances) = Asked(call)
    /\ Cardinality({r.subnetBase : r \in Children}) = Asked(call)
    /\ \A r \in Children : r.mode = "worker" /\ CopiesIn(r, reaper) = 1
    /\ Cardinality(ipamSlots) = Asked(call)

\* C16: concurrent first boot makes progress. From an empty inventory, with
\* concurrent Increase calls that ask for no more workers than there are
\* bases, fair scheduling, tools that succeed and a prebuild child that
\* exits, every call eventually returns and all the workers exist in the map
\* with pairwise distinct slots.
C16_FirstBootProgress == <>[]AllBooted

\* Two concurrent Increase(1) calls have returned nil and their two workers
\* are in the map on the bases 0 and 4.
C16_Witness ==
    /\ AllBooted
    /\ Cardinality(DOMAIN instances) = 2
    /\ \E c \in BagToSet(call) : c.n = 1 /\ c.err = "nil" /\ CopiesIn(c, call) = 2

\* What Update has handed to the callback so far: one call for each of the
\* first names of its snapshot, in order, with Running exactly when the probe
\* of that instance connected.
CallbacksFollowSnapshot(u) ==
    /\ Len(u.updated) <= Len(u.instances)
    /\ \A j \in DOMAIN u.updated :
         /\ u.updated[j].instance = u.instances[j]
         /\ u.updated[j].state \in {"Running", "Creating"}
         /\ u.updated[j].state = "Running" <=> u.updated[j].probe = "connected"
    /\ u.pc = "returned" => Len(u.updated) = Len(u.instances)

\* The frame and the callbacks of Update: a step of Update leaves the map,
\* the slot set, the shuttingDown flag and the Once as they were, and the
\* callback is invoked once for each name of the snapshot, with Running if
\* and only if the probe of that instance succeeded.
UpdateFrame ==
    [][updater' # updater =>
          /\ UNCHANGED <<instances, ipamSlots, shuttingDown, prebuild>>
          /\ CallbacksFollowSnapshot(updater')]_vars

\* C17: Update does not mutate state. A step of Update leaves the map, the
\* slot set, the shuttingDown flag and the Once as they were; the callback is
\* invoked once for each name of the snapshot, with Running if and only if
\* the probe succeeded and Creating otherwise; and a later Update gets to
\* probe and report its instances: no Update call waits for the lock for
\* good.
C17_Update ==
    [][updater' # updater =>
          /\ UNCHANGED <<instances, ipamSlots, shuttingDown, prebuild>>
          /\ CallbacksFollowSnapshot(updater')
          /\ updater'.pc # "blocked"]_vars

\* The ApplyNftables calls, of boots and of reapers, that have written the
\* ruleset of their snapshot and have not run nft yet.
RenderedBy == {g \in BagToSet(call) \cup BagToSet(reaper) : g.pc = "nft"}

\* C18: rendering is deterministic. Two renderings of the same instance
\* map, with two instances or more, are byte-identical: the rulesets two
\* ApplyNftables calls wrote from snapshots of the same instances are the same
\* text, whatever order the range over the map gave.
C18_DeterministicRendering ==
    \A g, h \in RenderedBy :
        Rendered(g.snap).rules = Rendered(h.snap).rules =>
            Rendered(g.snap).text = Rendered(h.snap).text

\* No BootInstance call has reserved a slot for a worker so far, given that
\* the prebuild run succeeded: no call is past a worker's reservation, has
\* counted a boot, or has returned an error from after a reservation.
NoWorkerYet ==
    \A d \in BagToSet(call) :
        /\ d.counter = 0
        /\ d.inserted = 0
        /\ d.err \notin {"boot", "tap", "filter"}
        /\ ~(d.mode = "worker" /\ d.pc \in {"prepare", "tap", "create", "render", "nft"})

\* C19: the prebuild instance takes slot 0 and gives it back. The slot that
\* PrebuildInstance reserves is base 0 and its instance is fleetingd0; at the
\* step at which a prebuild run returns nil, the map and the slot set are
\* empty; and the first slot reserved for a worker after it is base 0 again.
C19_PrebuildSlotZero ==
    [][/\ \A c \in Reserving(call') : c.mode = "prebuild" => c.subnetBase = 0
       /\ \A r \in BagToSet(reaper') :
             r.mode = "prebuild" => r.subnetBase = 0 /\ r.command.tap = <<"fleetingd", 0>>
       /\ (~hist.prebuildOk /\ hist'.prebuildOk) => instances' = <<>> /\ ipamSlots' = {}
       /\ (hist.prebuildOk /\ NoWorkerYet /\ Reserving(call) = {}) =>
             \A c \in Reserving(call') : c.mode = "worker" /\ c.subnetBase = 0]_vars

\* The prebuild run has returned nil and the first worker holds base 0,
\* reserved and not inserted yet.
C19_Witness ==
    /\ hist.prebuildOk
    /\ hist.prebuildSpawned = 1
    /\ instances = <<>>
    /\ ipamSlots = {CIDR(0)}
    /\ \E c \in Reserving(call) : c.mode = "worker" /\ c.subnetBase = 0

\* C20: step-1 rollback. When BootInstance or PrebuildInstance fails after
\* its reservation and before the insertion, the step that returns the error
\* takes the reserved key out of the slot set and leaves the map as it was,
\* so that both are as before the call.
C20_Rollback ==
    [][\A c \in Reserving(call) :
          (Steps(c) /\ InstanceName(c.subnetBase) \notin DOMAIN instances') =>
              /\ ipamSlots' = ipamSlots \ {CIDR(c.subnetBase)}
              /\ instances' = instances]_vars

(***************************************************************************)
(* A hypervisor that may fail to start.                                    *)
(***************************************************************************)
\* Increase alone, with both results of hypervisorCommand.Start().
NextSpawn ==
    \/ Increase
    \/ \E c \in Goroutines(call) : BootInstance_Once(c)
    \/ \E c \in Goroutines(call) : RunPrebuild_Prepare(c)
    \/ \E c \in Goroutines(call) : ReadTaken(c)
    \/ \E c \in Goroutines(call) : AllocateSlot(c)
    \/ \E c \in Goroutines(call) : PrepareAndInsert_Start(c)
    \/ \E c \in Goroutines(call) : Prebuild_Done(c)
    \/ \E r \in Goroutines(reaper) : Reaper_Remove(r)
    \/ Applying

SpecSpawn == Init /\ [][NextSpawn]_vars

\* The reapers of the children that did not start and have not yet taken
\* the lock.
FailedToStart == {r \in BagToSet(reaper) : r.startErr = "failed" /\ r.pc = "wait"}

\* C21: when the hypervisor child fails to start, BootInstance returns the
\* error and releases the reserved slot itself: no call goes on past the
\* spawn of a child that did not start, and neither the instance of such a
\* child nor its slot is left in the inventory for a reaper to remove.
C21_SpawnFailurePropagated ==
    \A r \in FailedToStart :
        /\ InstanceName(r.subnetBase) \notin DOMAIN instances
        /\ CIDR(r.subnetBase) \notin ipamSlots
        /\ \A c \in BagToSet(call) : c.subnetBase = r.subnetBase => ~InProgress(c)

\* C22: a filter-apply failure at the end of a boot does not undo the boot.
\* The step at which BootInstance returns the error of ApplyNftables leaves
\* the map, the slot set and the reapers as they were, so the instance stays
\* inserted with its slot and its child is not cancelled; an instance that is
\* in the map at that step has its reaper waiting for the child; and the
\* step at which a reaper leaves its wait removes the instance and releases
\* the slot.
C22_FilterFailureKeepsBoot ==
    [][/\ \A c \in BagToSet(call) :
             (c.pc = "tap" /\ call' = Step(call, c, AfterBoot(c, "filter"))) =>
                 /\ instances' = instances
                 /\ ipamSlots' = ipamSlots
                 /\ reaper' = reaper
                 /\ InstanceName(c.subnetBase) \in DOMAIN instances =>
                       /\ CIDR(c.subnetBase) \in ipamSlots
                       /\ \E r \in Children : r.subnetBase = c.subnetBase
       /\ \A r \in Children :
             CopiesIn(r, reaper') < CopiesIn(r, reaper) =>
                 /\ InstanceName(r.subnetBase) \notin DOMAIN instances'
                 /\ CIDR(r.subnetBase) \notin ipamSlots']_vars

\* Increase(1) returned (0, err) on a failed filter apply with its worker
\* inserted, and the reaper has since removed the worker and its slot.
C22_Witness ==
    /\ \E c \in Returned : c.n = 1 /\ c.inserted = 1 /\ c.err = "filter"
    /\ hist.prebuildOk
    /\ instances = <<>>
    /\ ipamSlots = {}
    /\ \E r \in BagToSet(reaper) : r.mode = "worker" /\ r.pc = "snap"

\* The positions at which a call does blocking work: "prepare" is the key
\* generation, createUserdata, createOverlay and hypervisorCommand.Start();
\* "tap" the polling of net.Interfaces with its sleeps; "create", "render"
\* and "nft" the writing of the ruleset file and the run of nft.
BlockingWork == {"prepare", "tap", "create", "render", "nft"}

\* The call holds the exclusive lock: it has passed Lock and the reservation
\* and has not reached the Unlock of its return path or of the insertion.
HoldsLock(c) == c.pc = "prepare" /\ lock = "held"

\* C23: the lock is never held across blocking work. No call that is
\* spawning the hypervisor, creating the user-data image or the overlay,
\* writing the ruleset, running nft or polling for the TAP holds the
\* inventory lock.
C23_NoLockAcrossBlockingWork ==
    \A c \in BagToSet(call) : c.pc \in BlockingWork => ~HoldsLock(c)

\* The calls that have inserted their instance and have not yet returned
\* from the TAP wait and the filter apply.
AfterInsert == {c \in BagToSet(call) : c.pc \in {"tap", "create", "render", "nft"}}

\* C24: per-instance ordering. The events of a boot (allocate, insert, spawn,
\* tap-ready, filter-apply) all come before any event of the reaper of the
\* same instance: while a boot has its TAP wait or its filter apply ahead,
\* the reaper of its instance is still waiting for the child and has not
\* removed the instance from the map.
C24_BootBeforeReaper ==
    \A c \in AfterInsert :
        /\ \E r \in Children : r.subnetBase = c.subnetBase /\ r.mode = c.mode
        /\ InstanceName(c.subnetBase) \in DOMAIN instances

\* The snapshots ApplyNftables can take of the map as it is in this state.
Snapshots == {TemplateSlice(instances, order) : order \in Orders(DOMAIN instances)}

\* C25: the renderer runs on every membership change. A boot that has
\* inserted its instance leaves its TAP wait only into ApplyNftables, with a
\* snapshot of the map as it is then, and a reaper that leaves its wait
\* removes its instance and goes on to ApplyNftables, whose snapshot is of
\* the map as it is after the removal.
C25_RendererRuns ==
    [][/\ \A c \in BagToSet(call) : \A x \in BagToSet(call') :
             (c.pc = "tap" /\ x.pc # "tap" /\ call' = Step(call, c, x)) =>
                 x.pc = "create" /\ x.snap \in Snapshots
       /\ \A r \in BagToSet(reaper) : \A y \in BagToSet(reaper') :
             (r.pc = "wait" /\ y.pc # "wait" /\ reaper' = Step(reaper, r, y)) =>
                 y.pc = "snap"
       /\ \A r \in BagToSet(reaper) : \A y \in BagToSet(reaper') :
             (r.pc = "snap" /\ y.pc # "snap" /\ reaper' = Step(reaper, r, y)) =>
                 y.pc = "create" /\ y.snap \in Snapshots]_vars

\* C26: prebuild ends before workers start. While the prebuild instance is
\* in the map or its child is running, no worker instance is in the map and
\* no worker child is running.
C26_PrebuildBeforeWorkers ==
    \A p \in Children : \A w \in Children :
        ~(p.mode = "prebuild" /\ w.mode = "worker")

\* The bases whose instance is in the map m.
Bound(m) == {b \in Bases : InstanceName(b) \in DOMAIN m}

\* C27: instance-to-slot binding. Every instance in the map has the key of
\* its own slot in the slot set; a step that takes an instance out of the
\* map or a key out of the slot set is the critical section of the reaper
\* of that instance, which takes out both and nothing else; an instance is
\* inserted under a name that is not in the map; and the record of an
\* instance that stays in the map does not change.
C27_SlotBinding ==
    [][/\ \A b \in Bound(instances') : CIDR(b) \in ipamSlots'
       /\ (ipamSlots \ ipamSlots' # {} \/ Bound(instances) \ Bound(instances') # {}) =>
             \E r \in Children :
                 /\ CopiesIn(r, reaper') < CopiesIn(r, reaper)
                 /\ ipamSlots \ ipamSlots' = {CIDR(r.subnetBase)}
                 /\ Bound(instances) \ Bound(instances') = {r.subnetBase}
                 /\ instances[InstanceName(r.subnetBase)] = InstanceInfo(r.mode, r.subnetBase)
       /\ \A c \in Reserving(call) :
             (Steps(c) /\ c.subnetBase \in Bound(instances')) =>
                 c.subnetBase \notin Bound(instances)
       /\ \A b \in Bound(instances) \cap Bound(instances') :
             instances'[InstanceName(b)] = instances[InstanceName(b)]]_vars

\* The reaper of the worker on base 4 has removed its instance and released
\* its slot, while the worker that took base 0 after the prebuild is in the
\* map with its slot.
C27_Witness ==
    /\ \E r \in BagToSet(reaper) : r.mode = "worker" /\ r.pc = "snap" /\ r.subnetBase = 4
    /\ Bound(instances) = {0}
    /\ ipamSlots = {CIDR(0)}
    /\ instances[InstanceName(0)] = InstanceInfo("worker", 0)

\* C28: the TAP-wait loop never errors. No BootInstance call returns an
\* error from its TAP wait: whether the device appeared or the budget
\* elapsed, the call goes on to apply the packet filter.
C28_TapWaitNeverErrors ==
    \A c \in Returned : c.err # "tap"

(***************************************************************************)
(* The ruleset under each vm_subnet setting.                               *)
(***************************************************************************)
\* The per-TAP ingress chain the template writes for one element of
\* .Instances: the device, the source MAC and the source IP outside of which
\* packets are dropped, the destination that is accepted and the destination
\* network that is dropped, which the template spells out as
\* 172.16.120.0/24.
IngressChain(instance) ==
    [device |-> instance.Name,
     etherSaddr |-> instance.InstanceTapMacAddress,
     ipSaddr |-> instance.InstanceTapIP,
     accept |-> instance.InstanceGateway,
     drop |-> <<<<"172.16.120.", 0>>, "/24">>]

\* Increase alone, its callers taking turns, and ApplyNftables step by step,
\* under either setting.
InitSubnet == \E subnet \in VMSubnets : InitConfigured(MaxBoots, FALSE, subnet)

NextSubnet == IncreaseInTurn \/ Booting \/ ApplyingNftables

SpecSubnet == InitSubnet /\ [][NextSubnet]_vars

\* C29: inter-VM isolation follows the configured subnet. For every chain of
\* the ruleset file, the accepted destination is the host-TAP IP of the
\* instance of that device and the dropped destination network is the /24 of
\* the vm_subnet setting.
C29_IsolationFollowsSubnet ==
    \A instance \in rulesetFile.rules :
        /\ \E b \in Bases :
              /\ IngressChain(instance).device = InstanceName(b)
              /\ IngressChain(instance).accept = MakeAddress(b + 1)
        /\ IngressChain(instance).drop = <<MakeAddress(0), "/24">>

\* C30: concurrent ApplyNftables calls do not corrupt each other's ruleset.
\* Whenever a call, of a boot or of a reaper, is about to run nft on the
\* ruleset path, the file holds the complete ruleset that this call rendered
\* from its own snapshot: not an empty or truncated file, and not the
\* rendering of another call.
C30_OwnRuleset ==
    \A g \in RenderedBy : rulesetFile = Rendered(g.snap)

\* C31: DestroyInstance tolerates a missing instance. A DestroyInstance call
\* on a name that is not in the map, made by Decrease or by
\* DestroyAllInstances after its snapshot, returns to its caller: the process
\* does not crash in the critical section of the call.
C31_MissingInstanceTolerated == ~crashed

\* C32: every operation releases the inventory lock on every return path.
\* The lock is never left held by an operation that has returned: neither
\* the read lock of a GetConnectInfo call that returned an error nor the
\* exclusive lock of a BootInstance or PrebuildInstance call that returned
\* one, so that a later Lock can be granted.
C32_LockReleased == lock \notin {"leaked", "rleaked"}

\* C33: no worker without a successful prebuild. Unless a prebuild run has
\* returned without error, no BootInstance call has inserted a worker and no
\* worker instance is in the map.
C33_NoWorkerWithoutPrebuild ==
    ~hist.prebuildOk =>
        /\ \A c \in BagToSet(call) : c.inserted = 0
        /\ \A b \in Bound(instances) :
              instances[InstanceName(b)] # InstanceInfo("worker", b)

\* The PrebuildInstance calls that have started their reaper and have not
\* returned: they receive from prebuildDone, or return an error before.
Receivers ==
    {c \in BagToSet(call) :
        c.mode = "prebuild" /\ c.pc \in {"tap", "create", "render", "nft", "pwait"}}

\* C34: reapers always finish. A reaper that has removed its instance and
\* applied the filter terminates: the prebuild reaper is never left at its
\* send on prebuildDone after the PrebuildInstance call that would receive
\* has returned.
C34_ReapersFinish ==
    \A r \in BagToSet(reaper) : r.pc = "send" => Receivers # {}

====
